---- MODULE Spec2Model ----
(***************************************************************************)
(* A model of github-contributions-tui: the Bubble Tea model (Update,      *)
(* View), the fetchData command and the loop that buckets the decoded      *)
(* contribution days into the [numMonths][numDays] array.                  *)
(*                                                                         *)
(* Spec      the program: key events, fetch commands running off the event *)
(*           loop, fetchMsg completions folded by Update.                  *)
(* SpecGrid  one fetchData command from the decoded response on: the       *)
(*           bucketing loop, one decoded day per step, over bounded lists  *)
(*           of decoded days and several clocks, and the handling of the   *)
(*           fetchMsg it returns.                                          *)
(***************************************************************************)
EXTENDS Integers, Sequences, FiniteSets, Bags, TLC

VARIABLES
    contributions,  \* model.contributions
    username,       \* model.username (the text input's value)
    submittedName,  \* model.submittedName
    err,            \* model.err ("nil" when no error)
    msg,            \* the message the last Update call received
    cmd,            \* the command the last Update call returned
    quit,           \* the program received bubbletea.Quit
    tasks,          \* the fetchData commands that are running (a bag)
    msgs,           \* fetchMsg values returned, not yet handled (a bag)
    emitted,        \* fetchData commands Update has returned so far
    handled,        \* fetchMsg values Update has received so far
    phase,          \* the phase of the specification's state machine
    now,            \* the wall clock, time.Now()
    gDays,          \* SpecGrid: the decoded contributionDays, flattened
    gIdx,           \* SpecGrid: days of gDays consumed so far
    gGrid,          \* SpecGrid: the local array `contributions`
    gErr,           \* SpecGrid: the error the loop returned with, or "nil"
    gLast,          \* SpecGrid: what the last iteration did
    gMsg,           \* SpecGrid: the fetchMsg the command returned
    gStatus,        \* SpecGrid: the status code of the HTTP response
    cQuery,         \* SpecClock: fromDate and currentDate of the query
    cStart,         \* SpecClock: startDate, the anchor of the loop
    cTicks,         \* SpecClock: days the clock advanced during the request
    sDate,          \* SpecRange: the date of the next contributionDay
    sGrid,          \* SpecRange: the local array [13][32]int of the loop
    sFlat,          \* SpecRange: the local array [12][31]int of the loop
    sLast           \* SpecRange: what the last iteration did

appVars == <<contributions, username, submittedName, err, msg, cmd, quit,
             tasks, msgs, emitted, handled, phase, now>>
scanVars == <<sDate, sGrid, sFlat, sLast>>
gridVars == <<gDays, gIdx, gGrid, gErr, gLast, gMsg, gStatus,
              cQuery, cStart, cTicks, scanVars>>
vars == <<contributions, username, submittedName, err, msg, cmd, quit,
          tasks, msgs, emitted, handled, phase, now, gDays, gIdx, gGrid,
          gErr, gLast, gMsg, gStatus, cQuery, cStart, cTicks,
          sDate, sGrid, sFlat, sLast>>

----------------------------------------------------------------------------
(* Program constants *)

numMonths == 13
numDays == 32
CharLimit == 156
flatMonths == 12
flatDays == 31

(* Bounds of the model *)

MaxLen == 2        \* longest text typed into the input
MaxFetches == 2    \* fetch commands emitted in one run
MaxDays == 2       \* decoded days in one response (SpecGrid)
MaxRespDays == 2   \* decoded days in one response (Spec)
MaxTicks == 1      \* days the clock advances during one request (SpecClock)

----------------------------------------------------------------------------
(* Calendar dates: time.Time reduced to year, month, day *)

Date(y, m, d) == [y |-> y, m |-> m, d |-> d]

IsLeap(y) == (y % 4 = 0 /\ y % 100 # 0) \/ y % 400 = 0

DaysIn(y, m) ==
    IF m = 2 THEN (IF IsLeap(y) THEN 29 ELSE 28)
    ELSE IF m \in {4, 6, 9, 11} THEN 30 ELSE 31

\* time.Parse("2006-01-02", s) succeeds exactly on the strings that name a
\* calendar day; a decoded date string is held as its three numeric fields.
ParseOk(s) ==
    /\ s.y \in 0..9999
    /\ s.m \in 1..12
    /\ s.d \in 1..DaysIn(s.y, s.m)

\* t.AddDate(years, 0, 0): the same month and day in another year, a day
\* past the end of the month carried into the next month.
AddYears(t, years) ==
    LET y == t.y + years
    IN  IF t.d <= DaysIn(y, t.m) THEN Date(y, t.m, t.d)
        ELSE IF t.m = 12 THEN Date(y + 1, 1, t.d - DaysIn(y, t.m))
        ELSE Date(y, t.m + 1, t.d - DaysIn(y, t.m))

\* Variant: the month without its leading zero, as layout "20061" gives.
Format200601Unpadded(t) ==
    << (t.y \div 1000) % 10, (t.y \div 100) % 10, (t.y \div 10) % 10, t.y % 10 >>
        \o (IF t.m >= 10 THEN << t.m \div 10, t.m % 10 >> ELSE << t.m >>)

\* date.Format("200601"): four year digits, two month digits.
Format200601(t) ==
    << (t.y \div 1000) % 10, (t.y \div 100) % 10, (t.y \div 10) % 10, t.y % 10,
       (t.m \div 10) % 10, t.m % 10 >>

\* strconv.Atoi on a string of decimal digits.
RECURSIVE Atoi(_)
Atoi(ds) ==
    IF ds = <<>> THEN 0
    ELSE 10 * Atoi(SubSeq(ds, 1, Len(ds) - 1)) + ds[Len(ds)]

----------------------------------------------------------------------------
(* The contributions array and the loop of fetchData that fills it *)

ZeroGrid == [r \in 0..(numMonths - 1) |-> [c \in 0..(numDays - 1) |-> 0]]

\* Variant: the month of the year alone, with no anchor.
MonthIndexOfYear(date, startDate) == date.m - 1

\* Variant: the month offset taken modulo twelve.
MonthIndexWrapped(date, startDate) ==
    ((date.y - startDate.y) * 12 + date.m - startDate.m) % 12

\* monthIndex: months between the anchor's month and the date's month.

MonthIndex(date, startDate) ==
    (date.y - startDate.y) * 12 + date.m - startDate.m

\* Variant: days counted from 0.
DayColumnZeroBased(date) == date.d - 1

\* The column a day of the month is stored at.
DayColumn(date) == date.d

\* Variant: a day outside the window ends the loop with an error.
StoreDayOutsideFails(grid, day, startDate) ==
    IF ~ParseOk(day.Date)
    THEN [status |-> "error", grid |-> grid, row |-> -1, col |-> -1]
    ELSE
        LET date == day.Date
            monthIndex == MonthIndex(date, startDate)
        IN  IF monthIndex < 0 \/ monthIndex >= numMonths
            THEN [status |-> "error", grid |-> grid, row |-> monthIndex, col |-> -1]
            ELSE
                [status |-> "stored",
                 grid |-> [grid EXCEPT
                             ![monthIndex][DayColumn(date)] = day.ContributionCount,
                             ![monthIndex][0] = Atoi(Format200601(date))],
                 row |-> monthIndex, col |-> DayColumn(date)]

\* Variant: a count is added to what the cell holds.
StoreDayAdds(grid, day, startDate) ==
    IF ~ParseOk(day.Date)
    THEN [status |-> "error", grid |-> grid, row |-> -1, col |-> -1]
    ELSE
        LET date == day.Date
            monthIndex == MonthIndex(date, startDate)
        IN  IF monthIndex < 0 \/ monthIndex >= numMonths
            THEN [status |-> "skip", grid |-> grid, row |-> monthIndex, col |-> -1]
            ELSE
                [status |-> "stored",
                 grid |-> [grid EXCEPT
                             ![monthIndex][DayColumn(date)] =
                                 @ + day.ContributionCount,
                             ![monthIndex][0] = Atoi(Format200601(date))],
                 row |-> monthIndex, col |-> DayColumn(date)]

\* Variant: a window of twelve rows, the last row never written.
StoreDayTwelveRows(grid, day, startDate) ==
    IF ~ParseOk(day.Date)
    THEN [status |-> "error", grid |-> grid, row |-> -1, col |-> -1]
    ELSE
        LET date == day.Date
            monthIndex == MonthIndex(date, startDate)
        IN  IF monthIndex < 0 \/ monthIndex >= numMonths - 1
            THEN [status |-> "skip", grid |-> grid, row |-> monthIndex, col |-> -1]
            ELSE
                [status |-> "stored",
                 grid |-> [grid EXCEPT
                             ![monthIndex][DayColumn(date)] = day.ContributionCount,
                             ![monthIndex][0] = Atoi(Format200601(date))],
                 row |-> monthIndex, col |-> DayColumn(date)]

\* One iteration of the loop over contributionDays: what it does to the
\* local array, and whether the function returns with an error.
StoreDay(grid, day, startDate) ==
    IF ~ParseOk(day.Date)
    THEN [status |-> "error", grid |-> grid, row |-> -1, col |-> -1]
    ELSE
        LET date == day.Date
            yearMonth == Atoi(Format200601(date))
            monthIndex == MonthIndex(date, startDate)
        IN  IF monthIndex < 0 \/ monthIndex >= numMonths
            THEN [status |-> "skip", grid |-> grid, row |-> monthIndex, col |-> -1]
            ELSE
                LET dayOfMonth == DayColumn(date)
                IN  [status |-> "stored",
                     grid |-> [grid EXCEPT
                                 ![monthIndex][dayOfMonth] = day.ContributionCount,
                                 ![monthIndex][0] = yearMonth],
                     row |-> monthIndex, col |-> dayOfMonth]

\* Variant: a day whose date does not parse is passed over.
RECURSIVE BuildFromSkipsMalformed(_, _, _)
BuildFromSkipsMalformed(grid, days, startDate) ==
    IF days = <<>> THEN [err |-> "nil", grid |-> grid]
    ELSE BuildFromSkipsMalformed(StoreDay(grid, Head(days), startDate).grid,
                                 Tail(days), startDate)

\* The whole loop: the array after the last day, or the first parse error.
RECURSIVE BuildFrom(_, _, _)
BuildFrom(grid, days, startDate) ==
    IF days = <<>> THEN [err |-> "nil", grid |-> grid]
    ELSE
        LET r == StoreDay(grid, Head(days), startDate)
        IN  IF r.status = "error" THEN [err |-> "Parse", grid |-> r.grid]
            ELSE BuildFrom(r.grid, Tail(days), startDate)

----------------------------------------------------------------------------
(* The loop of fetchData in the revision with the array [12][31]int *)

FlatZeroGrid == [r \in 0..(flatMonths - 1) |-> [c \in 0..(flatDays - 1) |-> 0]]

\* month := date.Month() - 1
MonthFlat(date) == date.m - 1

\* Variant: the day of the month as it is.
DayColumnFlatOneBased(date) == date.d

\* dayOfMonth := date.Day() - 1
DayColumnFlat(date) == date.d - 1

\* One iteration of the loop: no anchor and no test of the indexes.
StoreDayFlat(grid, day) ==
    IF ~ParseOk(day.Date)
    THEN [status |-> "error", grid |-> grid, row |-> -1, col |-> -1]
    ELSE
        LET month == MonthFlat(day.Date)
            dayOfMonth == DayColumnFlat(day.Date)
        IN  [status |-> "stored",
             grid |-> [grid EXCEPT ![month][dayOfMonth] = day.ContributionCount],
             row |-> month, col |-> dayOfMonth]

----------------------------------------------------------------------------
(* Text: a string is the sequence of its characters *)

Spaces(n) == [i \in 1..n |-> " "]

DigitChar(n) == <<"0", "1", "2", "3", "4", "5", "6", "7", "8", "9">>[n + 1]

RECURSIVE Digits(_)
Digits(n) ==
    IF n < 10 THEN <<DigitChar(n)>>
    ELSE Append(Digits(n \div 10), DigitChar(n % 10))

\* fmt.Sprintf("%d", v)
FormatInt(v) == IF v < 0 THEN <<"-">> \o Digits(-v) ELSE Digits(v)

\* fmt.Sprintf("%<w>d", v): right-justified in w columns, never truncated.
FormatWidth(w, v) ==
    LET t == FormatInt(v)
    IN  IF Len(t) >= w THEN t ELSE Spaces(w - Len(t)) \o t

----------------------------------------------------------------------------
(* model.View *)

\* A data cell (day > 0) of a month row; "x" stands for the cross glyph.
DataCell(v) ==
    IF v # 0 THEN FormatWidth(2, v) \o <<"|", " ">>
    ELSE <<" ", "x", "|", " ">>

\* The label cell (day = 0) of a month row.
LabelCell(v) ==
    IF v # 0 THEN <<"|">> \o FormatWidth(6, v) \o <<"|", " ">>
    ELSE <<"|">> \o Spaces(6) \o <<"|", " ">>

\* A cell of the header row.
HeaderCell(day) ==
    IF day = 0 THEN <<"|">> \o Spaces(6) \o <<"|", " ">>
    ELSE FormatWidth(2, day) \o <<"|", " ">>

RowCell(grid, month, day) ==
    IF day > 0 THEN DataCell(grid[month][day]) ELSE LabelCell(grid[month][day])

GridRows(grid) ==
    [month \in 0..(numMonths - 1) |->
        [day \in 0..(numDays - 1) |-> RowCell(grid, month, day)]]

NoRows == [month \in 0..(numMonths - 1) |-> [day \in 0..(numDays - 1) |-> <<>>]]

\* What View draws: the error text alone when m.err is set, otherwise the
\* submitted name, the header row and the month rows.
View(m) ==
    IF m.err # "nil"
    THEN [screen |-> "error", err |-> m.err, name |-> <<>>,
          header |-> <<>>, rows |-> NoRows]
    ELSE [screen |-> "grid", err |-> "nil", name |-> m.submittedName,
          header |-> [day \in 0..(numDays - 1) |-> HeaderCell(day)],
          rows |-> GridRows(m.contributions)]

----------------------------------------------------------------------------
(* Messages and commands *)

Runes == {"a"}

KeyMsg(k) ==
    [type |-> "key", key |-> k, contributions |-> ZeroGrid, err |-> "nil"]

\* A message of the text input's own (the cursor blink).
BlinkMsg ==
    [type |-> "blink", key |-> "", contributions |-> ZeroGrid, err |-> "nil"]

\* fetchMsg{contributions, err}
FetchMsg(grid, e) ==
    [type |-> "fetchMsg", key |-> "", contributions |-> grid, err |-> e]

NoMsg ==
    [type |-> "none", key |-> "", contributions |-> ZeroGrid, err |-> "nil"]

NilCmd == [type |-> "nil", username |-> <<>>]
QuitCmd == [type |-> "quit", username |-> <<>>]
FetchCmd(name) == [type |-> "fetchData", username |-> name]
TextInputCmd == [type |-> "textinput", username |-> <<>>]
BlinkCmd == [type |-> "blink", username |-> <<>>]

----------------------------------------------------------------------------
(* textinput.Model.Update, as far as the value goes: typed runes are added *)
(* up to CharLimit, backspace removes the last one.                        *)

TextInputUpdate(value, message) ==
    IF message.type = "key" /\ message.key \in Runes
    THEN [value |-> IF Len(value) < CharLimit
                    THEN Append(value, message.key) ELSE value,
          cmd |-> TextInputCmd]
    ELSE IF message.type = "key" /\ message.key = "backspace"
    THEN [value |-> IF value = <<>> THEN value
                    ELSE SubSeq(value, 1, Len(value) - 1),
          cmd |-> TextInputCmd]
    ELSE IF message.type = "blink"
    THEN [value |-> value, cmd |-> BlinkCmd]
    ELSE [value |-> value, cmd |-> NilCmd]

----------------------------------------------------------------------------
(* model.Update *)

Model == [contributions |-> contributions, username |-> username,
          submittedName |-> submittedName, err |-> err]

\* Variant: a key typed into the input also dismisses the error.
UpdateInputClearsError(m, message) ==
    LET r == TextInputUpdate(m.username, message)
    IN  [m |-> [m EXCEPT !.username = r.value, !.err = "nil"], cmd |-> r.cmd]

\* The tail of Update: the message goes to the text input.
UpdateInput(m, message) ==
    LET r == TextInputUpdate(m.username, message)
    IN  [m |-> [m EXCEPT !.username = r.value], cmd |-> r.cmd]

\* Variant: Escape does not quit.
IsQuitKeyCtrlCOnly(key) == key = "ctrl+c"

\* case "ctrl+c", "esc"
IsQuitKey(key) == key \in {"ctrl+c", "esc"}

\* Variant: the command is built before submittedName is assigned.
UpdateEnterOldName(m, message) ==
    IF m.username # <<>>
    THEN [m |-> [m EXCEPT !.submittedName = m.username, !.username = <<>>],
          cmd |-> FetchCmd(m.submittedName)]
    ELSE UpdateInput(m, message)

\* Variant: no test of the input being non-empty.
UpdateEnterUnguarded(m, message) ==
    [m |-> [m EXCEPT !.submittedName = m.username, !.username = <<>>],
     cmd |-> FetchCmd(m.username)]

\* Variant: Enter is ignored while a fetch runs or an error is shown.
UpdateEnterWhenIdle(m, message) ==
    IF m.username # <<>> /\ phase # "Fetching" /\ m.err = "nil"
    THEN [m |-> [m EXCEPT !.submittedName = m.username, !.username = <<>>],
          cmd |-> FetchCmd(m.username)]
    ELSE UpdateInput(m, message)

\* case "enter"
UpdateEnter(m, message) ==
    IF m.username # <<>>
    THEN [m |-> [m EXCEPT !.submittedName = m.username, !.username = <<>>],
          cmd |-> FetchCmd(m.username)]
    ELSE UpdateInput(m, message)

\* Variant: a failure installs the (empty) array of its message.
UpdateFetchMsgClears(m, message) ==
    IF message.err # "nil"
    THEN [m |-> [m EXCEPT !.err = message.err,
                          !.contributions = message.contributions],
          cmd |-> NilCmd]
    ELSE UpdateInput([m EXCEPT !.contributions = message.contributions],
                     message)

\* case fetchMsg
UpdateFetchMsg(m, message) ==
    IF message.err # "nil"
    THEN [m |-> [m EXCEPT !.err = message.err], cmd |-> NilCmd]
    ELSE UpdateInput([m EXCEPT !.contributions = message.contributions],
                     message)

Update(m, message) ==
    IF message.type = "key"
    THEN IF IsQuitKey(message.key) THEN [m |-> m, cmd |-> QuitCmd]
         ELSE IF message.key = "enter" THEN UpdateEnter(m, message)
         ELSE UpdateInput(m, message)
    ELSE IF message.type = "fetchMsg" THEN UpdateFetchMsg(m, message)
    ELSE UpdateInput(m, message)

----------------------------------------------------------------------------
(* fetchData: the command Update returns on a submit *)

\* What the request can end in: an error of http.NewRequest, of
\* http.DefaultClient.Do, of io.ReadAll, of json.Unmarshal, or a decoded body.
Outcomes == {"NewRequest", "Do", "ReadAll", "Unmarshal", "decoded"}

\* The dates of the requested range, read from the clock when the command
\* starts: fromDate and currentDate.
QueryRange(clock) == [fromDate |-> AddYears(clock, -1), currentDate |-> clock]

\* No date read yet.
NoDate == Date(0, 0, 0)
NoQuery == [fromDate |-> NoDate, currentDate |-> NoDate]

\* The calendar day after t.
NextDay(t) ==
    IF t.d < DaysIn(t.y, t.m) THEN Date(t.y, t.m, t.d + 1)
    ELSE IF t.m < 12 THEN Date(t.y, t.m + 1, 1)
    ELSE Date(t.y + 1, 1, 1)

\* Variant: a parse error returns the partly filled array with the error.
FetchResultPartial(outcome, days, clock) ==
    IF outcome # "decoded"
    THEN [contributions |-> ZeroGrid, err |-> outcome]
    ELSE LET r == BuildFrom(ZeroGrid, days, AddYears(clock, -1))
         IN  [contributions |-> r.grid, err |-> r.err]

\* Variant: a response whose status is not 200 is returned as an error.
FetchResultChecksStatus(outcome, days, clock) ==
    IF outcome # "decoded"
    THEN [contributions |-> ZeroGrid, err |-> outcome]
    ELSE IF gStatus # 200
    THEN [contributions |-> ZeroGrid, err |-> "Status"]
    ELSE LET r == BuildFrom(ZeroGrid, days, AddYears(clock, -1))
         IN  IF r.err # "nil"
             THEN [contributions |-> ZeroGrid, err |-> r.err]
             ELSE [contributions |-> r.grid, err |-> "nil"]

\* The fetchMsg the command returns once the request has ended in `outcome`
\* with the decoded list `days`; `clock` is time.Now() after the decoding.
\* The status code of the response is not among its inputs: the code never
\* reads it.
FetchResult(outcome, days, clock) ==
    IF outcome # "decoded"
    THEN [contributions |-> ZeroGrid, err |-> outcome]
    ELSE LET startDate == AddYears(clock, -1)
             r == BuildFrom(ZeroGrid, days, startDate)
         IN  IF r.err # "nil"
             THEN [contributions |-> ZeroGrid, err |-> r.err]
             ELSE [contributions |-> r.grid, err |-> "nil"]

----------------------------------------------------------------------------
(* The phase of the specification's state machine, followed along the run *)

NextPhase(p, m, message) ==
    IF message.type = "key" /\ message.key = "enter" /\ m.username # <<>>
    THEN "Fetching"
    ELSE IF message.type = "fetchMsg" /\ p = "Fetching"
    THEN (IF message.err = "nil" THEN "Displaying" ELSE "Failed")
    ELSE p

----------------------------------------------------------------------------
(* What the external API answers in Spec *)

Day(date, count) == [Date |-> date, ContributionCount |-> count]

RespDays == { Day(Date(2023, 5, 25), 4), Day(Date(2023, 2, 30), 7) }

SeqsUpTo(S, n) == UNION { [1..k -> S] : k \in 0..n }

Responses == SeqsUpTo(RespDays, MaxRespDays)

NoStep == [status |-> "none", row |-> -1, col |-> -1,
           day |-> Day(Date(0, 0, 0), 0)]

----------------------------------------------------------------------------
(* Spec: the program *)

\* What an iteration did, before the first iteration.
NoScan == [date |-> NoDate, status |-> "none", row |-> -1, col |-> -1,
           fstatus |-> "none", frow |-> -1, fcol |-> -1]

\* SpecRange is not running.
ScanIdle ==
    /\ sDate = NoDate
    /\ sGrid = ZeroGrid
    /\ sFlat = FlatZeroGrid
    /\ sLast = NoScan

Init ==
    /\ contributions = ZeroGrid
    /\ username = <<>>
    /\ submittedName = <<>>
    /\ err = "nil"
    /\ msg = NoMsg
    /\ cmd = BlinkCmd
    /\ quit = FALSE
    /\ tasks = EmptyBag
    /\ msgs = EmptyBag
    /\ emitted = 0
    /\ handled = 0
    /\ phase = "AwaitingInput"
    /\ now = Date(2024, 5, 20)
    /\ gDays = <<>>
    /\ gIdx = 0
    /\ gGrid = ZeroGrid
    /\ gErr = "nil"
    /\ gLast = NoStep
    /\ gMsg = NoMsg
    /\ gStatus = 200
    /\ cQuery = NoQuery
    /\ cStart = NoDate
    /\ cTicks = 0
    /\ ScanIdle

One(x) == SetToBag({x})

\* The event loop hands `message` to Update, installs the model it returns
\* and starts the command it returns.
Handle(message) ==
    /\ ~quit
    /\ LET r == Update(Model, message)
       IN  /\ contributions' = r.m.contributions
           /\ username' = r.m.username
           /\ submittedName' = r.m.submittedName
           /\ err' = r.m.err
           /\ cmd' = r.cmd
           /\ quit' = (r.cmd.type = "quit")
           /\ tasks' = IF r.cmd.type = "fetchData"
                       THEN tasks (+) One(r.cmd.username) ELSE tasks
           /\ emitted' = IF r.cmd.type = "fetchData"
                         THEN emitted + 1 ELSE emitted
    /\ msg' = message
    /\ phase' = NextPhase(phase, Model, message)
    /\ UNCHANGED now
    /\ UNCHANGED gridVars

KeyQuit ==
    \E k \in {"ctrl+c", "esc"} :
        Handle(KeyMsg(k)) /\ UNCHANGED <<msgs, handled>>

KeyEnter ==
    /\ username # <<>> => emitted < MaxFetches
    /\ Handle(KeyMsg("enter"))
    /\ UNCHANGED <<msgs, handled>>

KeyRune ==
    /\ Len(username) < MaxLen
    /\ \E k \in Runes : Handle(KeyMsg(k))
    /\ UNCHANGED <<msgs, handled>>

KeyBackspace == Handle(KeyMsg("backspace")) /\ UNCHANGED <<msgs, handled>>

Blink == Handle(BlinkMsg) /\ UNCHANGED <<msgs, handled>>

\* A command runs off the event loop: the request ends in one of the
\* outcomes, and the command returns its fetchMsg.
FetchRun ==
    \E name \in BagToSet(tasks) :
        /\ ~quit
        /\ \E outcome \in Outcomes :
           \E days \in (IF outcome = "decoded" THEN Responses ELSE {<<>>}) :
              LET r == FetchResult(outcome, days, now)
              IN  msgs' = msgs (+) One(FetchMsg(r.contributions, r.err))
        /\ tasks' = tasks (-) One(name)
        /\ UNCHANGED <<contributions, username, submittedName, err, msg, cmd,
                       quit, emitted, handled, phase, now>>
        /\ UNCHANGED gridVars

\* The event loop takes one returned fetchMsg, in no fixed order.
RecvMsg(fm) ==
    /\ BagIn(fm, msgs)
    /\ Handle(fm)
    /\ msgs' = msgs (-) One(fm)
    /\ handled' = handled + 1

Recv == \E fm \in BagToSet(msgs) : RecvMsg(fm)

Next ==
    \/ KeyQuit
    \/ KeyEnter
    \/ KeyRune
    \/ KeyBackspace
    \/ Blink
    \/ FetchRun
    \/ Recv

Spec == Init /\ [][Next]_vars

----------------------------------------------------------------------------
(* SpecGrid: one run of the bucketing loop of fetchData *)

\* time.Now() of the run: an ordinary day, a leap day, a day in January.
GridNows == { Date(2024, 5, 20), Date(2024, 2, 29), Date(2024, 1, 15) }

\* Date strings of the decoded days: inside the window, before it, after
\* it, and one that names no calendar day.
GridDates ==
    { Date(2023, 5, 25), Date(2023, 5, 1), Date(2022, 1, 1), Date(2024, 2, 29),
      Date(2024, 5, 20), Date(2024, 6, 1), Date(2023, 2, 30) }

GridCounts == {0, 4, 120}

GridDays == { Day(date, count) : date \in GridDates, count \in GridCounts }

\* startDate := time.Now().AddDate(-1, 0, 0), taken once before the loop.
startDate == AddYears(now, -1)

\* Status codes of the response: success and a failure.
Statuses == {200, 401}

\* The array an earlier, successful fetch has installed.
PriorGrid ==
    BuildFrom(ZeroGrid, <<Day(Date(2023, 5, 25), 4)>>, Date(2023, 5, 20)).grid

\* The program with the grid of an earlier fetch on display and a second
\* fetch, for "a", under way: its response has arrived and decodes.
GInit ==
    /\ contributions = PriorGrid
    /\ username = <<>>
    /\ submittedName = <<"a">>
    /\ err = "nil"
    /\ msg = KeyMsg("enter")
    /\ cmd = FetchCmd(<<"a">>)
    /\ quit = FALSE
    /\ tasks = One(<<"a">>)
    /\ msgs = EmptyBag
    /\ emitted = 2
    /\ handled = 1
    /\ phase = "Fetching"
    /\ now \in GridNows
    /\ gDays \in SeqsUpTo(GridDays, MaxDays)
    /\ gIdx = 0
    /\ gGrid = ZeroGrid
    /\ gErr = "nil"
    /\ gLast = NoStep
    /\ gMsg = NoMsg
    /\ gStatus \in Statuses
    /\ cQuery = NoQuery
    /\ cStart = NoDate
    /\ cTicks = 0
    /\ ScanIdle

\* One iteration of the loop over the decoded days.
GStep ==
    /\ gMsg = NoMsg
    /\ gErr = "nil"
    /\ gIdx < Len(gDays)
    /\ LET day == gDays[gIdx + 1]
           r == StoreDay(gGrid, day, startDate)
       IN  /\ gGrid' = r.grid
           /\ gErr' = IF r.status = "error" THEN "Parse" ELSE "nil"
           /\ gLast' = [status |-> r.status, row |-> r.row, col |-> r.col,
                        day |-> day]
    /\ gIdx' = gIdx + 1
    /\ UNCHANGED <<gDays, gMsg, gStatus, cQuery, cStart, cTicks, scanVars>>
    /\ UNCHANGED appVars

\* The command returns: with the error of the iteration that failed, or
\* with the array after the last day.
GReturn ==
    /\ gMsg = NoMsg
    /\ gErr # "nil" \/ gIdx = Len(gDays)
    /\ LET r == FetchResult("decoded", gDays, now)
       IN  /\ gMsg' = FetchMsg(r.contributions, r.err)
           /\ msgs' = msgs (+) One(FetchMsg(r.contributions, r.err))
    /\ tasks' = tasks (-) One(submittedName)
    /\ UNCHANGED <<gDays, gIdx, gGrid, gErr, gLast, gStatus,
                   cQuery, cStart, cTicks, scanVars>>
    /\ UNCHANGED <<contributions, username, submittedName, err, msg, cmd,
                   quit, emitted, handled, phase, now>>

\* The event loop hands the returned fetchMsg to Update.
GDeliver == gMsg # NoMsg /\ RecvMsg(gMsg)

GNext == GStep \/ GReturn \/ GDeliver

SpecGrid == GInit /\ [][GNext]_vars

\* The loop taken one day at a time and the loop as a whole agree.
StepwiseAgrees ==
    gMsg # NoMsg =>
        /\ gMsg.err = gErr
        /\ gErr = "nil" => gMsg.contributions = gGrid

----------------------------------------------------------------------------
(* Claims about the program (Spec) *)

modelVars == <<contributions, username, submittedName, err>>

\* C1: once a success completion has been folded into the state, the state
\* holds no error and View draws the grid, not the error text.
C1_SuccessClearsError ==
    (msg.type = "fetchMsg" /\ msg.err = "nil") =>
        (err = "nil" /\ View(Model).screen = "grid")

\* C2: a completion handled while the machine is not in phase Fetching
\* changes none of grid, lastError, submittedIdentifier and inputBuffer.
C2_StaleCompletionIgnored ==
    [][(Recv /\ phase # "Fetching") => UNCHANGED modelVars]_vars

\* C3: handling a failure completion records its error, leaves the grid, the
\* submitted name and the input buffer as they were, and emits no command.
C3_FailureKeepsGrid ==
    [][(Recv /\ msg'.err # "nil") =>
          /\ err' = msg'.err
          /\ UNCHANGED <<contributions, submittedName, username, tasks,
                         emitted>>
          /\ cmd' = NilCmd]_vars

C3_Witness ==
    /\ msg.type = "fetchMsg"
    /\ msg.err # "nil"
    /\ err = msg.err
    /\ contributions # ZeroGrid

\* C4: Enter with a non-empty buffer B sets submittedName to B, empties the
\* buffer and emits exactly one fetch command for B; grid and error stay.
C4_SubmitEmitsOneFetch ==
    [][(KeyEnter /\ username # <<>>) =>
          /\ submittedName' = username
          /\ username' = <<>>
          /\ cmd' = FetchCmd(username)
          /\ tasks' = tasks (+) One(username)
          /\ emitted' = emitted + 1
          /\ UNCHANGED <<contributions, err>>]_vars

C4_Witness ==
    /\ msg = KeyMsg("enter")
    /\ cmd.type = "fetchData"
    /\ emitted = 2
    /\ BagIn(submittedName, tasks)
    /\ BagCardinality(tasks) = 2
    /\ username = <<>>

\* C5: Enter with an empty buffer changes none of phase, submittedName, grid
\* and error and emits no fetch command, in every reachable state.
C5_EmptySubmitNoOp ==
    [][(KeyEnter /\ username = <<>>) =>
          /\ UNCHANGED <<phase, submittedName, contributions, err, tasks,
                         emitted>>
          /\ cmd'.type # "fetchData"]_vars

C5_Witness ==
    /\ msg = KeyMsg("enter")
    /\ cmd.type # "fetchData"
    /\ phase = "Displaying"
    /\ submittedName # <<>>

\* C6: Ctrl-C or Escape returns the quit command from every state, emits no
\* fetch command and leaves the model unchanged; no other message returns
\* the quit command.
C6_QuitFromAnyState ==
    [][/\ KeyQuit => (cmd' = QuitCmd /\ quit' /\ UNCHANGED <<modelVars, tasks, emitted>>)
       /\ (KeyEnter \/ KeyRune \/ KeyBackspace \/ Blink \/ Recv) =>
             (cmd' # QuitCmd /\ ~quit')]_vars

C6_Witness ==
    /\ quit
    /\ msg = KeyMsg("esc")
    /\ err # "nil"
    /\ username # <<>>
    /\ tasks # EmptyBag

\* C7: every fetch command that has run returned exactly one fetchMsg (the
\* commands emitted are those still running, those whose message waits and
\* those whose message was handled), and a fetchMsg is either a success (no
\* error) or a failure carrying an error and no grid.
C7_OneCompletionPerTask ==
    /\ emitted = BagCardinality(tasks) + BagCardinality(msgs) + handled
    /\ \A fm \in BagToSet(msgs) \cup {msg} :
          fm.type = "fetchMsg" =>
             /\ fm.err \in (Outcomes \ {"decoded"}) \cup {"Parse", "nil"}
             /\ fm.err # "nil" => fm.contributions = ZeroGrid

C7_Witness ==
    /\ \E fm \in BagToSet(msgs) : fm.err = "Parse"
    /\ \E fm \in BagToSet(msgs) :
          fm.err = "nil" /\ fm.contributions # ZeroGrid
    /\ emitted = 2
    /\ tasks = EmptyBag

----------------------------------------------------------------------------
(* SpecServer  the event loop of Spec against a server that answers each   *)
(*             user name with that user's contributions.                   *)

\* The decoded days of the response for a user: the user named with k
\* letters has k contributions on 2023-05-25.
ServerDays(name) == << Day(Date(2023, 5, 25), Len(name)) >>

\* The array a fetch for `name` returns.
GridOf(name) == FetchResult("decoded", ServerDays(name), now).contributions

\* A command runs off the event loop and returns its fetchMsg: the request
\* fails, or the response for the command's user name is decoded.
ServerRun ==
    \E name \in BagToSet(tasks) :
        /\ ~quit
        /\ \E outcome \in Outcomes :
              LET r == FetchResult(outcome, ServerDays(name), now)
              IN  msgs' = msgs (+) One(FetchMsg(r.contributions, r.err))
        /\ tasks' = tasks (-) One(name)
        /\ UNCHANGED <<contributions, username, submittedName, err, msg, cmd,
                       quit, emitted, handled, phase, now>>
        /\ UNCHANGED gridVars

SNext ==
    \/ KeyQuit
    \/ KeyEnter
    \/ KeyRune
    \/ KeyBackspace
    \/ Blink
    \/ ServerRun
    \/ Recv

SpecServer == Init /\ [][SNext]_vars

\* C21: when no fetch is under way and the last message Update handled was
\* a successful fetchMsg, the installed array is the one fetched for the
\* name in submittedName, the name View shows above the grid.
C21_GridMatchesSubmittedName ==
    (/\ tasks = EmptyBag
     /\ msgs = EmptyBag
     /\ msg.type = "fetchMsg"
     /\ msg.err = "nil") =>
        contributions = GridOf(submittedName)

----------------------------------------------------------------------------
(* SpecClock  the clock reads of one fetchData command: the query's range  *)
(*            when the command starts, the anchor of the loop once the     *)
(*            response is decoded, the clock advancing in between.         *)

\* The days the command can start on: every day of a leap year.
ClockNows == { t \in [y : {2024}, m : 1..12, d : 1..31] : ParseOk(t) }

CInit ==
    /\ contributions = ZeroGrid
    /\ username = <<>>
    /\ submittedName = <<"a">>
    /\ err = "nil"
    /\ msg = KeyMsg("enter")
    /\ cmd = FetchCmd(<<"a">>)
    /\ quit = FALSE
    /\ tasks = One(<<"a">>)
    /\ msgs = EmptyBag
    /\ emitted = 1
    /\ handled = 0
    /\ phase = "Fetching"
    /\ now \in ClockNows
    /\ gDays = <<>>
    /\ gIdx = 0
    /\ gGrid = ZeroGrid
    /\ gErr = "nil"
    /\ gLast = NoStep
    /\ gMsg = NoMsg
    /\ gStatus = 200
    /\ cQuery = NoQuery
    /\ cStart = NoDate
    /\ cTicks = 0
    /\ ScanIdle

clockFixed == <<contributions, username, submittedName, err, msg, cmd, quit,
                tasks, msgs, emitted, handled, phase, gDays, gIdx, gGrid,
                gErr, gLast, gMsg, gStatus, scanVars>>

\* The command starts: currentDate and fromDate are formatted from the clock.
CQuery ==
    /\ cQuery = NoQuery
    /\ cQuery' = QueryRange(now)
    /\ UNCHANGED <<now, cStart, cTicks>>
    /\ UNCHANGED clockFixed

\* A day passes while the request is on the network.
CTick ==
    /\ cQuery # NoQuery
    /\ cStart = NoDate
    /\ cTicks < MaxTicks
    /\ now' = NextDay(now)
    /\ cTicks' = cTicks + 1
    /\ UNCHANGED <<cQuery, cStart>>
    /\ UNCHANGED clockFixed

\* The response is decoded: startDate is computed from the clock.
CAnchor ==
    /\ cQuery # NoQuery
    /\ cStart = NoDate
    /\ cStart' = AddYears(now, -1)
    /\ UNCHANGED <<now, cQuery, cTicks>>
    /\ UNCHANGED clockFixed

CNext == CQuery \/ CTick \/ CAnchor

SpecClock == CInit /\ [][CNext]_vars

\* C19: Enter with a non-empty input returns a new fetchData command in
\* every state of the program, also while an earlier command runs and after
\* a failure was handled; and each returned fetchMsg that waits can be the
\* next one Update receives, so two completions are handled in either order.
C19_SubmitNotSuppressed ==
    ~quit =>
        /\ username # <<>> =>
              LET r == Update(Model, KeyMsg("enter"))
              IN  /\ r.cmd = FetchCmd(username)
                  /\ r.m.submittedName = username
        /\ \A fm \in BagToSet(msgs) : ENABLED RecvMsg(fm)

C19_Witness ==
    /\ BagCardinality(tasks) = 2
    /\ msg = KeyMsg("enter")
    /\ cmd.type = "fetchData"
    /\ phase = "Fetching"
    /\ ~quit

\* C20: a key other than Enter, Ctrl-C and Escape changes at most the
\* input: submittedName, the array, err and the phase stay as they are, no
\* fetchData command is returned and the program does not quit.
C20_OtherKeysOnlyEditInput ==
    [][(KeyRune \/ KeyBackspace) =>
          /\ UNCHANGED <<submittedName, contributions, err, phase>>
          /\ UNCHANGED <<tasks, msgs, emitted, handled, quit>>
          /\ cmd'.type \notin {"fetchData", "quit"}]_vars

C20_Witness ==
    /\ msg = KeyMsg("a")
    /\ username = <<"a">>
    /\ submittedName = <<"a", "a">>
    /\ contributions # ZeroGrid
    /\ err # "nil"

----------------------------------------------------------------------------
(* SpecRange  the loops of both revisions of fetchData over one response   *)
(*            that holds every day of a stretch of the calendar, in        *)
(*            order, each day with a count of its own.                     *)

\* A date as one number: for comparing dates, and the count of its sample.
DateCode(t) == t.y * 10000 + t.m * 100 + t.d

\* The calendar dates from `from` to `to`, both included.
RangeDates(from, to) ==
    { t \in [y : (from.y)..(to.y), m : 1..12, d : 1..31] :
        /\ ParseOk(t)
        /\ DateCode(from) <= DateCode(t)
        /\ DateCode(t) <= DateCode(to) }

ScanNows ==
    { Date(2024, 5, 20), Date(2024, 2, 29), Date(2024, 1, 31),
      Date(2024, 12, 31) }

\* The days of the response: from before the window of every clock of
\* ScanNows to after it.
ScanFirst == Date(2022, 12, 1)
ScanLast == Date(2025, 1, 31)

RInit ==
    /\ contributions = ZeroGrid
    /\ username = <<>>
    /\ submittedName = <<"a">>
    /\ err = "nil"
    /\ msg = KeyMsg("enter")
    /\ cmd = FetchCmd(<<"a">>)
    /\ quit = FALSE
    /\ tasks = One(<<"a">>)
    /\ msgs = EmptyBag
    /\ emitted = 1
    /\ handled = 0
    /\ phase = "Fetching"
    /\ now \in ScanNows
    /\ gDays = <<>>
    /\ gIdx = 0
    /\ gGrid = ZeroGrid
    /\ gErr = "nil"
    /\ gLast = NoStep
    /\ gMsg = NoMsg
    /\ gStatus = 200
    /\ cQuery = NoQuery
    /\ cStart = NoDate
    /\ cTicks = 0
    /\ sDate = ScanFirst
    /\ sGrid = ZeroGrid
    /\ sFlat = FlatZeroGrid
    /\ sLast = NoScan

\* One iteration of the loop over the days, in each revision.
RStep ==
    /\ DateCode(sDate) <= DateCode(ScanLast)
    /\ LET day == Day(sDate, DateCode(sDate))
           a == StoreDay(sGrid, day, startDate)
           f == StoreDayFlat(sFlat, day)
           done == [date |-> sDate, status |-> a.status, row |-> a.row,
                    col |-> a.col, fstatus |-> f.status, frow |-> f.row,
                    fcol |-> f.col]
       IN  /\ sGrid' = a.grid
           /\ sFlat' = f.grid
           /\ sLast' = done
    /\ sDate' = NextDay(sDate)
    /\ UNCHANGED appVars
    /\ UNCHANGED <<gDays, gIdx, gGrid, gErr, gLast, gMsg, gStatus,
                   cQuery, cStart, cTicks>>

RNext == RStep

\* What the iterations so far did, one record for each day consumed; the
\* indexes of an iteration do not depend on the array it writes to.
Scanned ==
    IF sLast = NoScan THEN {}
    ELSE { LET day == Day(d, DateCode(d))
               a == StoreDay(ZeroGrid, day, startDate)
               f == StoreDayFlat(FlatZeroGrid, day)
           IN  [date |-> d, status |-> a.status, row |-> a.row,
                col |-> a.col, fstatus |-> f.status, frow |-> f.row,
                fcol |-> f.col] : d \in RangeDates(ScanFirst, sLast.date) }

SpecRange == RInit /\ [][RNext]_vars

----------------------------------------------------------------------------
(* Claims about the bucketing loop (SpecGrid) *)

\* C8: for an in-window day, the stored cell and its rendered text after a
\* sample with count 0 differ from those of a day with no sample at all.
C8_ZeroDistinctFromNoData ==
    (gLast.status = "stored" /\ gLast.day.ContributionCount = 0) =>
        /\ gGrid[gLast.row][gLast.col] # ZeroGrid[gLast.row][gLast.col]
        /\ RowCell(gGrid, gLast.row, gLast.col)
              # RowCell(ZeroGrid, gLast.row, gLast.col)

\* The row the claim gives a date: months since the anchor's month.
ClaimedRow(date) ==
    (date.y - startDate.y) * 12 + (date.m - startDate.m)

\* C9: a kept sample is written to row (sampleYear - anchorYear) * 12 +
\* (sampleMonth - anchorMonth); a sample of the anchor's own year and month
\* is kept and written to row 0, whatever the two days of the month.
C9_RowIsMonthOffset ==
    /\ gLast.status = "stored" =>
          /\ gLast.row = ClaimedRow(gLast.day.Date)
          /\ gGrid[ClaimedRow(gLast.day.Date)][gLast.day.Date.d]
                = gLast.day.ContributionCount
    /\ (/\ gLast.status # "none"
        /\ ParseOk(gLast.day.Date)
        /\ gLast.day.Date.y = startDate.y
        /\ gLast.day.Date.m = startDate.m) =>
          (gLast.status = "stored" /\ gLast.row = 0)

C9_Witness ==
    /\ gLast.status = "stored"
    /\ gLast.row = 0
    /\ gLast.day.Date.d < startDate.d
    /\ gIdx = 2
    /\ gLast.day.ContributionCount = 120
    /\ gGrid[9][29] = 4

\* C10: a kept sample's count is written at column dayOfMonth (1..31) of its
\* row, never in the label column 0; with anchor 2023-05-20 the sample
\* {2023-05-25, 4} gives grid[0][25] = 4.
C10_ColumnIsDayOfMonth ==
    /\ gLast.status = "stored" =>
          /\ gLast.col = gLast.day.Date.d
          /\ gLast.col \in 1..31
          /\ gGrid[gLast.row][gLast.day.Date.d] = gLast.day.ContributionCount
          /\ gGrid[gLast.row][0]
                = gLast.day.Date.y * 100 + gLast.day.Date.m
    /\ (/\ startDate = Date(2023, 5, 20)
        /\ gDays = <<Day(Date(2023, 5, 25), 4)>>
        /\ gIdx = 1) => gGrid[0][25] = 4

C10_Witness ==
    /\ startDate = Date(2023, 5, 20)
    /\ gDays = <<Day(Date(2023, 5, 25), 4)>>
    /\ gIdx = 1
    /\ gLast.status = "stored"
    /\ gGrid[0][25] = 4

\* A list without its i-th element.
WithoutAt(s, i) == SubSeq(s, 1, i - 1) \o SubSeq(s, i + 1, Len(s))

\* A well-formed date whose month offset from the anchor is no row.
OutOfWindow(day) ==
    /\ ParseOk(day.Date)
    /\ ClaimedRow(day.Date) < 0 \/ ClaimedRow(day.Date) >= numMonths

\* C11: a sample whose month offset is below 0 or at least the number of
\* rows is discarded silently: the returned array, counts and labels, is the
\* one built from the list without that sample, the error is the same, and
\* with every date well-formed the command returns a success.
C11_OutOfWindowDiscarded ==
    gMsg # NoMsg =>
        /\ \A i \in 1..Len(gDays) :
              OutOfWindow(gDays[i]) =>
                  LET rest == FetchResult("decoded", WithoutAt(gDays, i), now)
                  IN  /\ gMsg.contributions = rest.contributions
                      /\ gMsg.err = rest.err
        /\ (\A j \in 1..Len(gDays) : ParseOk(gDays[j].Date)) =>
              gMsg.err = "nil"

C11_Witness ==
    /\ gMsg # NoMsg
    /\ gMsg.err = "nil"
    /\ Len(gDays) = 2
    /\ OutOfWindow(gDays[1])
    /\ ClaimedRow(gDays[1].Date) >= numMonths
    /\ gDays[1].ContributionCount # 0
    /\ gLast.status = "stored"
    /\ gMsg.contributions # ZeroGrid

\* C12: the label of a row decodes to the row: for every row r whose label
\* slot holds L # 0, (L div 100 - anchorYear) * 12 + (L mod 100 -
\* anchorMonth) = r, after every step of the loop and in the returned array.
C12_LabelRoundTrip ==
    \A r \in 0..(numMonths - 1) :
        /\ gGrid[r][0] # 0 =>
              ((gGrid[r][0] \div 100) - startDate.y) * 12
                  + ((gGrid[r][0] % 100) - startDate.m) = r
        /\ (gMsg # NoMsg /\ gMsg.contributions[r][0] # 0) =>
              ((gMsg.contributions[r][0] \div 100) - startDate.y) * 12
                  + ((gMsg.contributions[r][0] % 100) - startDate.m) = r

C12_Witness ==
    /\ gIdx = 2
    /\ gMsg # NoMsg
    /\ gLast.status = "stored"
    /\ gDays[1].Date.y = gDays[2].Date.y
    /\ gDays[1].Date.m = gDays[2].Date.m
    /\ gDays[1].Date.d # gDays[2].Date.d
    /\ gMsg.contributions[gLast.row][0] # 0
    /\ gLast.row = 0

\* The last sample of the list that carries a date.
LastWith(date) ==
    CHOOSE j \in 1..Len(gDays) :
        /\ gDays[j].Date = date
        /\ \A k \in (j + 1)..Len(gDays) : gDays[k].Date # date

\* C14: in a returned array the cell of a date holds the count of the last
\* sample of the list with that date.
C14_LastWriteWins ==
    (gMsg # NoMsg /\ gMsg.err = "nil") =>
        \A i \in 1..Len(gDays) :
            ~OutOfWindow(gDays[i]) =>
                gMsg.contributions[ClaimedRow(gDays[i].Date)][gDays[i].Date.d]
                    = gDays[LastWith(gDays[i].Date)].ContributionCount

C14_Witness ==
    /\ gMsg # NoMsg
    /\ gMsg.err = "nil"
    /\ Len(gDays) = 2
    /\ gDays[1].Date = gDays[2].Date
    /\ gDays[1].ContributionCount = 120
    /\ gDays[2].ContributionCount = 4
    /\ ~OutOfWindow(gDays[1])
    /\ gMsg.contributions[ClaimedRow(gDays[1].Date)][gDays[1].Date.d] = 4

\* C15: a sample whose date does not parse, wherever it stands in the list,
\* makes the command return a failure that carries no array; once Update
\* has handled it, err is set and the array installed before is unchanged.
C15_MalformedDateFails ==
    (gMsg # NoMsg /\ \E i \in 1..Len(gDays) : ~ParseOk(gDays[i].Date)) =>
        /\ gMsg.err # "nil"
        /\ gMsg.contributions = ZeroGrid
        /\ msg = gMsg =>
              /\ err = gMsg.err
              /\ contributions = PriorGrid
              /\ View(Model).screen = "error"

C15_Witness ==
    /\ msg = gMsg
    /\ Len(gDays) = 2
    /\ ~ParseOk(gDays[2].Date)
    /\ ~OutOfWindow(gDays[1])
    /\ gDays[1].ContributionCount # 0
    /\ gGrid # ZeroGrid
    /\ err # "nil"
    /\ contributions = PriorGrid

\* C16: a response with a non-success status and a decodable body is
\* handled as a success: the command returns the array built from the
\* decoded samples (all zero when there are none) with no error, and Update
\* installs it.
C16_StatusNotDistinguished ==
    (/\ gMsg # NoMsg
     /\ gStatus # 200
     /\ \A j \in 1..Len(gDays) : ParseOk(gDays[j].Date)) =>
        /\ gMsg.err = "nil"
        /\ gMsg.contributions = gGrid
        /\ gDays = <<>> => gMsg.contributions = ZeroGrid
        /\ msg = gMsg => (contributions = gGrid /\ err = "nil")

C16_Witness ==
    /\ gStatus = 401
    /\ msg = gMsg
    /\ gDays = <<>>
    /\ contributions = ZeroGrid
    /\ View(Model).screen = "grid"

\* C18: every rendered data cell has one fixed width, whatever the stored
\* count (one, two, three or more digits) or the no-data glyph, so each
\* cell of a month row is as wide as the header cell above it.
C18_FixedCellWidth ==
    \A month \in 0..(numMonths - 1) : \A day \in 1..(numDays - 1) :
        /\ Len(RowCell(gGrid, month, day)) = Len(DataCell(0))
        /\ Len(RowCell(gGrid, month, day)) = Len(HeaderCell(day))

----------------------------------------------------------------------------
(* Claims about the clock reads of a fetch (SpecClock) *)

\* C17: the anchor is computed once per fetch: the start of the requested
\* range (fromDate) and the anchor of row 0 (startDate) have the same year
\* and month, also when the clock advances while the request is under way.
C17_AnchorComputedOnce ==
    cStart # NoDate =>
        /\ cStart.y = cQuery.fromDate.y
        /\ cStart.m = cQuery.fromDate.m

\* C23: when the clock reads of a fetch give one value of now, every
\* calendar date of the requested range [now - 1 year, now] has a month
\* offset in 0..12 from the anchor now - 1 year, so the loop stores a sample
\* of that date and does not pass it over; for every now of a leap year,
\* 29 February and the last days of the months included.
C23_RangeWithinWindow ==
    (cStart # NoDate /\ cTicks = 0) =>
        \A d \in RangeDates(cQuery.fromDate, cQuery.currentDate) :
            LET r == StoreDay(ZeroGrid, Day(d, 1), cStart)
            IN  /\ r.status = "stored"
                /\ r.row \in 0..12
                /\ r.row = MonthIndex(d, AddYears(now, -1))

C23_Witness ==
    /\ cTicks = 0
    /\ cQuery.currentDate = Date(2024, 2, 29)
    /\ cQuery.fromDate = Date(2023, 3, 1)
    /\ cStart = Date(2023, 3, 1)
    /\ Cardinality(RangeDates(cQuery.fromDate, cQuery.currentDate)) = 366

----------------------------------------------------------------------------
(* Claims about the loops over a stretch of the calendar (SpecRange) *)

\* C22: every write of the loop is inside the array: in the revision with
\* [13][32]int the row written is in 0..12 and the columns written (the
\* day's and the label's) in 0..31; in the revision with [12][31]int the
\* row is in 0..11 and the column in 0..30.
C22_WritesInBounds ==
    /\ sLast.status = "stored" =>
          /\ sLast.row \in 0..12 /\ sLast.col \in 0..31
          /\ sLast.row \in DOMAIN ZeroGrid
          /\ {0, sLast.col} \subseteq DOMAIN ZeroGrid[sLast.row]
    /\ sLast.fstatus = "stored" =>
          /\ sLast.frow \in 0..11 /\ sLast.fcol \in 0..30
          /\ sLast.frow \in DOMAIN FlatZeroGrid
          /\ sLast.fcol \in DOMAIN FlatZeroGrid[sLast.frow]

C22_Witness ==
    /\ sLast.date = Date(2024, 12, 31)
    /\ now = Date(2024, 12, 31)
    /\ sLast.status = "stored"
    /\ sLast.row = 12 /\ sLast.col = 31
    /\ sLast.fstatus = "stored"
    /\ sLast.frow = 11 /\ sLast.fcol = 30

\* C24: in the revision with [13][32]int two samples the loop stores, of
\* different dates, are written to different cells: the cell of every
\* stored sample still holds the count of that sample.
C24_KeptDatesDistinctCells ==
    \A a \in Scanned :
        a.status = "stored" =>
            /\ sGrid[a.row][a.col] = DateCode(a.date)
            /\ (sLast.status = "stored" /\ a.date # sLast.date) =>
                  <<a.row, a.col>> # <<sLast.row, sLast.col>>

C24_Witness ==
    /\ sDate = NextDay(ScanLast)
    /\ now = Date(2024, 5, 20)
    /\ Cardinality({ a \in Scanned : a.status = "stored" }) = 397
    /\ sGrid[0][1] = 20230501
    /\ sGrid[12][31] = 20240531

\* C25: in the revision with [12][31]int every two different dates of the
\* requested range [now - 1 year, now] are stored in different cells: the
\* cell of every sample of the range still holds the count of that sample.
C25_FlatRangeDistinctCells ==
    \A a \in Scanned :
        (/\ a.fstatus = "stored"
         /\ DateCode(QueryRange(now).fromDate) <= DateCode(a.date)
         /\ DateCode(a.date) <= DateCode(QueryRange(now).currentDate)) =>
            sFlat[a.frow][a.fcol] = DateCode(a.date)

====
